---- MODULE Spec2Model ----
(***************************************************************************)
(* A model of the SimpleMicroservice request handlers (src/main.py) and of *)
(* the pydantic schemas they use (src/models/assignment.py, course.py).    *)
(*                                                                         *)
(* Conventions.                                                            *)
(*  - A Python str is a sequence of one-character strings.                 *)
(*  - A dict (a model_dump(), a JSON body) is a function from field names  *)
(*    to Optional values: None is <<>> and a value v is <<v>>.             *)
(*  - A validated model instance (AssignmentRead, CourseRead) is a record  *)
(*    of plain values; only CourseBase.description, declared Optional,     *)
(*    keeps its Optional wrapper.                                          *)
(*  - The module-level dicts `assignments` and `courses` are insertion-    *)
(*    ordered: a sequence of entries [k |-> key, v |-> record].            *)
(*  - A Decimal is [coef, scale], meaning coef * 10^(-scale).              *)
(*  - A datetime is [day, tod] (calendar day, time of day).                *)
(***************************************************************************)
EXTENDS Integers, Sequences, FiniteSets, TLC

(* ------------------------------ bounds -------------------------------- *)
\* UUIDs are 1..MaxId.
MaxId == 2
\* The clock (datetime.utcnow) takes the values 0..MaxClock.
MaxClock == 1
\* Worker threads that run handlers at the same time (ConcSpec).
MaxThreads == 2
\* Requests the thread pool accepts in one behaviour (ConcSpec).
MaxRequests == 3

Ids == 1..MaxId
Threads == 1..MaxThreads

VARIABLES
    assignments,   \* main.py: assignments: Dict[UUID, AssignmentRead]
    courses,       \* main.py: courses: Dict[UUID, CourseRead]
    now,           \* the value datetime.utcnow() returns when read
    issued,        \* per store, the ids under which a Create has stored a record
    resp,          \* the last request and the response the handler gave
    thr,           \* the handlers in flight in the thread pool (ConcSpec)
    log,           \* the requests the thread pool has answered (ConcSpec)
    held           \* the objects a Python caller of the handlers holds (CallerSpec)

vars == <<assignments, courses, now, issued, resp, thr, log, held>>

(* --------------------------- Python values ---------------------------- *)
None == <<>>
Some(v) == <<v>>

\* str.lower() on the characters the model uses
LowerChar(c) ==
    CASE c = "A" -> "a"
      [] c = "C" -> "c"
      [] c = "F" -> "f"
      [] c = "I" -> "i"
      [] c = "M" -> "m"
      [] c = "Q" -> "q"
      [] c = "S" -> "s"
      [] c = "U" -> "u"
      [] OTHER -> c

lower(s) == [i \in 1..Len(s) |-> LowerChar(s[i])]

\* an exact comparison in place of the partial match
StrEquals(sub, s) == s = sub
\* Python's `sub in s` on strings
StrIn(sub, s) ==
    \E i \in 0..(Len(s) - Len(sub)) :
        \A j \in 1..Len(sub) : s[i + j] = sub[j]

\* float(Decimal): the value in units of 10^-2
Pow10(n) == IF n = 0 THEN 1 ELSE IF n = 1 THEN 10 ELSE 100
float(d) == d.coef * Pow10(2 - d.scale)

\* datetime.fromisoformat(s): a date-only string gives midnight of that day
fromisoformat(s) ==
    [day |-> s.day, tod |-> IF "tod" \in DOMAIN s THEN s.tod ELSE 0]

\* the datetime compared whole, time of day included
WholeDatetime(dt) == dt.day * 100 + dt.tod
\* datetime.date()
date(dt) == dt.day

(* ------------------------- insertion-ordered dict --------------------- *)
Keys(d) == {d[i].k : i \in 1..Len(d)}
Has(d, k) == k \in Keys(d)
\* a handler's test `k not in d`, as it would be with keys of another type
NotInNever(k, d) == TRUE
\* k not in d
NotIn(k, d) == k \notin Keys(d)
IndexOf(d, k) == CHOOSE i \in 1..Len(d) : d[i].k = k
\* d[k]
Lookup(d, k) == d[IndexOf(d, k)].v
\* d[k] = v : an existing key keeps its position, a new key is appended
Put(d, k, v) ==
    IF Has(d, k)
    THEN [d EXCEPT ![IndexOf(d, k)] = [k |-> k, v |-> v]]
    ELSE Append(d, [k |-> k, v |-> v])
\* a removal that leaves the dict as it was
DelNothing(d, k) == d
\* a removal that empties the dict
DelAll(d, k) == <<>>
\* del d[k]
Del(d, k) ==
    LET i == IndexOf(d, k)
    IN  SubSeq(d, 1, i - 1) \o SubSeq(d, i + 1, Len(d))
\* list(d.values())
Values(d) == [i \in 1..Len(d) |-> d[i].v]

\* the body's own id kept
ForceIdMissing(data, id) == data
\* data['id'] = id
ForceId(data, id) == [data EXCEPT !["id"] = Some(id)]

\* Python truthiness of the Optional value v of field f
Truthy(f, v) ==
    IF v = None THEN FALSE
    ELSE IF f \in {"title", "description", "department", "semester"}
         THEN v[1] # <<>>
    ELSE IF f = "points" THEN v[1].coef # 0
    ELSE IF f \in {"late_submission_allowed", "group_assignment"} THEN v[1]
    ELSE IF f \in {"credits", "level", "year"} THEN v[1] # 0
    ELSE TRUE
\* a merge that copies only the truthy values of `upd`
DictUpdateTruthy(stored, upd) ==
    [f \in (DOMAIN stored) \cup {g \in DOMAIN upd : Truthy(g, upd[g])} |->
        IF f \in DOMAIN upd /\ Truthy(f, upd[f]) THEN upd[f] ELSE stored[f]]
\* dict.update: the keys of `upd` overwrite, the others are kept
DictUpdate(stored, upd) ==
    [f \in (DOMAIN stored) \cup (DOMAIN upd) |->
        IF f \in DOMAIN upd THEN upd[f] ELSE stored[f]]

(* ------------------- models/assignment.py: the schemas ----------------- *)
AssignmentUpdateFields ==
    {"title", "description", "points", "due_date",
     "late_submission_allowed", "group_assignment"}

AssignmentBaseFields ==
    {"id", "course_id"} \cup AssignmentUpdateFields

AssignmentReadFields == AssignmentBaseFields \cup {"created_at", "updated_at"}

\* BaseModel.model_dump() of an instance whose fields are all plain values
model_dump(m) == [f \in DOMAIN m |-> Some(m[f])]

\* AssignmentBase / AssignmentCreate: validation of a request body. `u` is
\* the value uuid4() returns if the id default_factory is called.
AssignmentCreate(body, u) ==
    [id                      |-> IF "id" \in DOMAIN body THEN body["id"][1] ELSE u,
     course_id               |-> body["course_id"][1],
     title                   |-> body["title"][1],
     description             |-> body["description"][1],
     points                  |-> body["points"][1],
     due_date                |-> body["due_date"][1],
     late_submission_allowed |->
         IF "late_submission_allowed" \in DOMAIN body
         THEN body["late_submission_allowed"][1] ELSE TRUE,
     group_assignment        |->
         IF "group_assignment" \in DOMAIN body
         THEN body["group_assignment"][1] ELSE FALSE]

\* AssignmentUpdate: every field Optional with default None; keys the schema
\* does not declare are ignored; `set` is pydantic's model_fields_set.
AssignmentUpdate(body) ==
    [vals |-> [f \in AssignmentUpdateFields |->
                  IF f \in DOMAIN body THEN body[f] ELSE None],
     set  |-> (DOMAIN body) \cap AssignmentUpdateFields]

\* update.model_dump(exclude_unset=True)
model_dump_exclude_unset(update) == [f \in update.set |-> update.vals[f]]

\* AssignmentRead(**data). `dflt` holds what the default factories return when
\* called: uuid4() for id, datetime.utcnow() for created_at and updated_at.
\* No field of AssignmentRead is Optional, so None is a ValidationError.
AssignmentRead(data, dflt) ==
    LET required == {"course_id", "title", "description", "points", "due_date"}
        given == (DOMAIN data) \cap AssignmentReadFields
        field(f) ==
            IF f \in given THEN data[f][1]
            ELSE IF f = "late_submission_allowed" THEN TRUE
            ELSE IF f = "group_assignment" THEN FALSE
            ELSE dflt[f]
    IN  IF (\E f \in given : data[f] = None) \/ ~(required \subseteq given)
        THEN [exc |-> "ValidationError", val |-> None]
        ELSE [exc |-> "",
              val |-> Some([f \in AssignmentReadFields |-> field(f)])]

(* --------------------- models/course.py: the schemas ------------------ *)
CourseUpdateFields ==
    {"title", "description", "credits", "department", "level", "semester",
     "year"}

CourseBaseFields == {"id"} \cup CourseUpdateFields

CourseReadFields == CourseBaseFields \cup {"created_at", "updated_at"}

\* model_dump() of a course: description is Optional and dumps as it is
course_model_dump(m) ==
    [f \in DOMAIN m |-> IF f = "description" THEN m[f] ELSE Some(m[f])]

\* CourseBase / CourseCreate
CourseCreate(body, u) ==
    [id          |-> IF "id" \in DOMAIN body THEN body["id"][1] ELSE u,
     title       |-> body["title"][1],
     description |-> IF "description" \in DOMAIN body
                     THEN body["description"] ELSE None,
     credits     |-> body["credits"][1],
     department  |-> body["department"][1],
     level       |-> body["level"][1],
     semester    |-> body["semester"][1],
     year        |-> body["year"][1]]

\* CourseUpdate
CourseUpdate(body) ==
    [vals |-> [f \in CourseUpdateFields |->
                  IF f \in DOMAIN body THEN body[f] ELSE None],
     set  |-> (DOMAIN body) \cap CourseUpdateFields]

\* CourseRead(**data). created_at and updated_at are declared with
\* default_factory=datetime: when either is missing from `data` pydantic calls
\* datetime() with no argument, which raises TypeError.
CourseRead(data, dflt) ==
    LET required == {"title", "credits", "department", "level", "semester",
                     "year"}
        given == (DOMAIN data) \cap CourseReadFields
        field(f) ==
            IF f \in given
            THEN (IF f = "description" THEN data[f] ELSE data[f][1])
            ELSE IF f = "description" THEN None
            ELSE dflt[f]
    IN  IF ~({"created_at", "updated_at"} \subseteq given)
        THEN [exc |-> "TypeError", val |-> None]
        ELSE IF (\E f \in given \ {"description"} : data[f] = None)
                \/ ~(required \subseteq given)
        THEN [exc |-> "ValidationError", val |-> None]
        ELSE [exc |-> "", val |-> Some([f \in CourseReadFields |-> field(f)])]

(* ------------------------- the requests drawn ------------------------- *)
Quiz == <<"Q", "u", "i", "z">>
Hw == <<"h", "w">>
Empty == <<>>

\* a creation body that leaves id and the two booleans to their defaults
AssignmentBody1 ==
    [course_id   |-> Some(1),
     title       |-> Some(Quiz),
     description |-> Some(Hw),
     points      |-> Some([coef |-> 500, scale |-> 1]),
     due_date    |-> Some([day |-> 20, tod |-> 15])]

\* a creation body that gives every field but id, with falsy values
AssignmentBody2 ==
    [course_id               |-> Some(2),
     title                   |-> Some(Hw),
     description             |-> Some(Empty),
     points                  |-> Some([coef |-> 0, scale |-> 0]),
     due_date                |-> Some([day |-> 21, tod |-> 0]),
     late_submission_allowed |-> Some(FALSE),
     group_assignment        |-> Some(TRUE)]

WithId(body, i) == ("id" :> Some(i)) @@ body

\* bodies AssignmentCreate accepts: with and without an id of the client's
AssignmentBodies ==
    {AssignmentBody1, AssignmentBody2}
        \cup {WithId(AssignmentBody1, i) : i \in Ids}

\* bodies AssignmentUpdate accepts
AssignmentPatches ==
    { \* one field, and a key the schema does not declare
      [id |-> Some(MaxId), group_assignment |-> Some(TRUE)],
      \* falsy values
      [title |-> Some(Empty), points |-> Some([coef |-> 0, scale |-> 0]),
       late_submission_allowed |-> Some(FALSE)],
      \* an explicit null
      [title |-> None],
      \* nothing
      <<>> }

\* query strings of GET /assignments
AssignmentQueries ==
    { <<>>,
      [id |-> 1, title |-> <<"q", "U">>],
      [due_date_from |-> [day |-> 20], due_date_to |-> [day |-> 20]],
      [min_points |-> 0, max_points |-> 4999, group_assignment |-> TRUE,
       late_submission_allowed |-> FALSE],
      [course_id |-> 2] }

Calculus == <<"C", "a", "l", "c", "u", "l", "u", "s", " ", "I", "I">>
Mathematics == <<"M", "a", "t", "h", "e", "m", "a", "t", "i", "c", "s">>
Spring == <<"s", "p", "r", "i", "n", "g">>

\* the creation body of the CourseCreate example
CourseBody1 ==
    [title      |-> Some(Calculus),
     credits    |-> Some(4),
     department |-> Some(Mathematics),
     level      |-> Some(2000),
     semester   |-> Some(Spring),
     year       |-> Some(2024)]

CourseBodies ==
    {CourseBody1, ("description" :> Some(Empty)) @@ CourseBody1,
     WithId(CourseBody1, 1)}

CoursePatches ==
    { [credits |-> Some(0)], [title |-> None] }

CourseQueries ==
    { <<>>,
      [department |-> <<"m", "a", "t", "h">>],
      [title |-> <<"c", "A">>, level |-> 2000, semester |-> Spring,
       year |-> 2024, min_credits |-> 4, max_credits |-> 4] }

\* uuid4(): a UUID that does not exist yet in either store
Uuid4 == Ids \ (issued.assignments \cup issued.courses)

\* the values two successive datetime.utcnow() calls can return
TwoReads == {<<now, t>> : t \in {now, now + 1} \cap (0..MaxClock)}

(* ---------------------- main.py: the filter chains --------------------- *)
\* a chain written with elif: only the first criterion supplied is applied
FilterAssignmentsElif(all, q) ==
    LET has(c) == c \in DOMAIN q
    IN  IF has("id") THEN SelectSeq(all, LAMBDA a : a.id = q["id"])
        ELSE IF has("course_id")
        THEN SelectSeq(all, LAMBDA a : a.course_id = q["course_id"])
        ELSE IF has("group_assignment")
        THEN SelectSeq(all,
                 LAMBDA a : a.group_assignment = q["group_assignment"])
        ELSE all
\* list_assignments: the chain of comprehensions over list(assignments.values())
FilterAssignments(all, q) ==
    LET has(c) == c \in DOMAIN q
        r0 == all
        r1 == IF has("id")
              THEN SelectSeq(r0, LAMBDA a : a.id = q["id"]) ELSE r0
        r2 == IF has("course_id")
              THEN SelectSeq(r1, LAMBDA a : a.course_id = q["course_id"])
              ELSE r1
        r3 == IF has("title")
              THEN SelectSeq(r2,
                       LAMBDA a : StrIn(lower(q["title"]), lower(a.title)))
              ELSE r2
        r4 == IF has("due_date_from")
              THEN SelectSeq(r3,
                       LAMBDA a : date(a.due_date)
                                    >= date(fromisoformat(q["due_date_from"])))
              ELSE r3
        r5 == IF has("due_date_to")
              THEN SelectSeq(r4,
                       LAMBDA a : date(a.due_date)
                                    <= date(fromisoformat(q["due_date_to"])))
              ELSE r4
        r6 == IF has("min_points")
              THEN SelectSeq(r5, LAMBDA a : float(a.points) >= q["min_points"])
              ELSE r5
        r7 == IF has("max_points")
              THEN SelectSeq(r6, LAMBDA a : float(a.points) <= q["max_points"])
              ELSE r6
        r8 == IF has("group_assignment")
              THEN SelectSeq(r7,
                       LAMBDA a : a.group_assignment = q["group_assignment"])
              ELSE r7
        r9 == IF has("late_submission_allowed")
              THEN SelectSeq(r8,
                       LAMBDA a : a.late_submission_allowed
                                    = q["late_submission_allowed"])
              ELSE r8
    IN  r9

\* list_courses
FilterCourses(all, q) ==
    LET has(c) == c \in DOMAIN q
        r0 == all
        r1 == IF has("title")
              THEN SelectSeq(r0,
                       LAMBDA c : StrIn(lower(q["title"]), lower(c.title)))
              ELSE r0
        r2 == IF has("department")
              THEN SelectSeq(r1,
                       LAMBDA c : StrIn(lower(q["department"]),
                                        lower(c.department)))
              ELSE r1
        r3 == IF has("level")
              THEN SelectSeq(r2, LAMBDA c : c.level = q["level"]) ELSE r2
        r4 == IF has("semester")
              THEN SelectSeq(r3, LAMBDA c : c.semester = q["semester"]) ELSE r3
        r5 == IF has("year")
              THEN SelectSeq(r4, LAMBDA c : c.year = q["year"]) ELSE r4
        r6 == IF has("min_credits")
              THEN SelectSeq(r5, LAMBDA c : c.credits >= q["min_credits"])
              ELSE r5
        r7 == IF has("max_credits")
              THEN SelectSeq(r6, LAMBDA c : c.credits <= q["max_credits"])
              ELSE r6
    IN  r7

(* ------------------------------ responses ----------------------------- *)
\* what the transport sends back: the status code and the entities returned.
\* 404 is the HTTPException the handlers raise; 500 is any other exception.
Response(op, id, payload, status, body) ==
    [op |-> op, id |-> id, payload |-> payload, status |-> status,
     body |-> body]

NoId == 0

\* a worker thread with no request
Idle == [pc |-> "idle", req |-> <<>>, loc |-> <<>>]

(* ------------------------------- Init --------------------------------- *)
Init ==
    /\ assignments = <<>>
    /\ courses = <<>>
    /\ now = 0
    /\ issued = [assignments |-> {}, courses |-> {}]
    /\ resp = Response("", NoId, <<>>, 0, <<>>)
    /\ thr = [w \in Threads |-> Idle]
    /\ log = <<>>
    /\ held = <<>>

(* -------------------- main.py: the handler bodies --------------------- *)
\* What a handler run without interruption makes of the dict `d`: the dict
\* afterwards, the status code and the entities returned. `u` is what uuid4()
\* returns if called, `t` what the two datetime.utcnow() calls return.
Result(d, status, body) == [store |-> d, status |-> status, body |-> body]

\* the values the default factories return, in field order
Defaults(u, t) == [id |-> u, created_at |-> t[1], updated_at |-> t[2]]

create_assignment(d, body, u, t) ==
    LET assignment == AssignmentCreate(body, u)
        r == AssignmentRead(model_dump(assignment), Defaults(u, t))
    IN  IF r.exc # "" THEN Result(d, 500, <<>>)
        ELSE LET assignment_read == r.val[1]
             IN  Result(Put(d, assignment_read.id, assignment_read), 201,
                        <<assignment_read>>)

list_assignments(d, q) ==
    Result(d, 200, FilterAssignments(Values(d), q))

get_assignment(d, assignment_id) ==
    IF NotIn(assignment_id, d) THEN Result(d, 404, <<>>)
    ELSE Result(d, 200, <<Lookup(d, assignment_id)>>)

\* update_assignment, lines 154-155: the stored dump merged with the fields
\* set in the payload, and the AssignmentRead made of it
update_merge(stored, body, t) ==
    LET update == AssignmentUpdate(body)
    IN  AssignmentRead(DictUpdate(stored, model_dump_exclude_unset(update)),
                       Defaults(NoId, t))

update_assignment(d, assignment_id, body, t) ==
    IF NotIn(assignment_id, d) THEN Result(d, 404, <<>>)
    ELSE LET r == update_merge(model_dump(Lookup(d, assignment_id)), body, t)
         IN  IF r.exc # "" THEN Result(d, 500, <<>>)
             ELSE LET d2 == Put(d, assignment_id, r.val[1])
                  IN  Result(d2, 200, <<Lookup(d2, assignment_id)>>)

\* replace_assignment, lines 170-172: the AssignmentRead made of the body
\* with the path id (an id uuid4() makes for the body is overwritten at once)
replace_build(assignment_id, body, t) ==
    LET assignment == AssignmentCreate(body, NoId)
        assignment_data == ForceId(model_dump(assignment), assignment_id)
    IN  AssignmentRead(assignment_data, Defaults(NoId, t))

replace_assignment(d, assignment_id, body, t) ==
    IF NotIn(assignment_id, d) THEN Result(d, 404, <<>>)
    ELSE LET r == replace_build(assignment_id, body, t)
         IN  IF r.exc # "" THEN Result(d, 500, <<>>)
             ELSE Result(Put(d, assignment_id, r.val[1]), 200, r.val)

delete_assignment(d, assignment_id) ==
    IF NotIn(assignment_id, d) THEN Result(d, 404, <<>>)
    ELSE Result(Del(d, assignment_id), 204, <<>>)

create_course(d, body, u, t) ==
    LET course == CourseCreate(body, u)
        r == CourseRead(course_model_dump(course), Defaults(u, t))
    IN  IF r.exc # "" THEN Result(d, 500, <<>>)
        ELSE LET course_read == r.val[1]
             IN  Result(Put(d, course_read.id, course_read), 201,
                        <<course_read>>)

list_courses(d, q) ==
    Result(d, 200, FilterCourses(Values(d), q))

get_course(d, course_id) ==
    IF NotIn(course_id, d) THEN Result(d, 404, <<>>)
    ELSE Result(d, 200, <<Lookup(d, course_id)>>)

update_course(d, course_id, body, t) ==
    LET update == CourseUpdate(body)
    IN  IF NotIn(course_id, d) THEN Result(d, 404, <<>>)
        ELSE LET stored == DictUpdate(course_model_dump(Lookup(d, course_id)),
                                      model_dump_exclude_unset(update))
                 r == CourseRead(stored, Defaults(NoId, t))
             IN  IF r.exc # "" THEN Result(d, 500, <<>>)
                 ELSE LET d2 == Put(d, course_id, r.val[1])
                      IN  Result(d2, 200, <<Lookup(d2, course_id)>>)

replace_course(d, course_id, body, t) ==
    IF NotIn(course_id, d) THEN Result(d, 404, <<>>)
    ELSE LET course == CourseCreate(body, NoId)
             course_data == ForceId(course_model_dump(course), course_id)
             r == CourseRead(course_data, Defaults(NoId, t))
         IN  IF r.exc # "" THEN Result(d, 500, <<>>)
             ELSE Result(Put(d, course_id, r.val[1]), 200, r.val)

delete_course(d, course_id) ==
    IF NotIn(course_id, d) THEN Result(d, 404, <<>>)
    ELSE Result(Del(d, course_id), 204, <<>>)

(* ---------------- main.py: the routes, one request at a time ---------- *)
\* the clock after a handler that made an entity with fresh timestamps
ClockAfter(status, t) == IF status \in {200, 201} THEN t[2] ELSE now

POST_assignments ==
    \E body \in AssignmentBodies :
    \E u \in (IF "id" \in DOMAIN body THEN {NoId} ELSE Uuid4) :
    \E t \in TwoReads :
        \E r \in {create_assignment(assignments, body, u, t)} :
            /\ assignments' = r.store
            /\ resp' = Response("create_assignment", NoId, body, r.status,
                                r.body)
            /\ issued' = IF r.status = 201
                         THEN [issued EXCEPT
                                  !.assignments = @ \cup {r.body[1].id}]
                         ELSE issued
            /\ now' = ClockAfter(r.status, t)
            /\ UNCHANGED <<courses, thr, log, held>>

GET_assignments ==
    \E q \in AssignmentQueries :
        \E r \in {list_assignments(assignments, q)} :
            /\ resp' = Response("list_assignments", NoId, q, r.status, r.body)
            /\ UNCHANGED <<assignments, courses, now, issued, thr, log, held>>

GET_assignment ==
    \E assignment_id \in Ids :
        \E r \in {get_assignment(assignments, assignment_id)} :
            /\ resp' = Response("get_assignment", assignment_id, <<>>,
                                r.status, r.body)
            /\ UNCHANGED <<assignments, courses, now, issued, thr, log, held>>

PATCH_assignment ==
    \E assignment_id \in Ids, body \in AssignmentPatches :
        \E r \in {update_assignment(assignments, assignment_id, body,
                                   <<now, now>>)} :
            /\ assignments' = r.store
            /\ resp' = Response("update_assignment", assignment_id, body,
                                r.status, r.body)
            /\ UNCHANGED <<courses, now, issued, thr, log, held>>

PUT_assignment ==
    \E assignment_id \in Ids, body \in AssignmentBodies :
    \E t \in TwoReads :
        \E r \in {replace_assignment(assignments, assignment_id, body, t)} :
            /\ assignments' = r.store
            /\ resp' = Response("replace_assignment", assignment_id, body,
                                r.status, r.body)
            /\ now' = ClockAfter(r.status, t)
            /\ UNCHANGED <<courses, issued, thr, log, held>>

DELETE_assignment ==
    \E assignment_id \in Ids :
        \E r \in {delete_assignment(assignments, assignment_id)} :
            /\ assignments' = r.store
            /\ resp' = Response("delete_assignment", assignment_id, <<>>,
                                r.status, r.body)
            /\ UNCHANGED <<courses, now, issued, thr, log, held>>

POST_courses ==
    \E body \in CourseBodies :
    \E u \in (IF "id" \in DOMAIN body THEN {NoId} ELSE Uuid4) :
    \E t \in TwoReads :
        \E r \in {create_course(courses, body, u, t)} :
            /\ courses' = r.store
            /\ resp' = Response("create_course", NoId, body, r.status, r.body)
            /\ issued' = IF r.status = 201
                         THEN [issued EXCEPT !.courses = @ \cup {r.body[1].id}]
                         ELSE issued
            /\ now' = ClockAfter(r.status, t)
            /\ UNCHANGED <<assignments, thr, log, held>>

GET_courses ==
    \E q \in CourseQueries :
        \E r \in {list_courses(courses, q)} :
            /\ resp' = Response("list_courses", NoId, q, r.status, r.body)
            /\ UNCHANGED <<assignments, courses, now, issued, thr, log, held>>

GET_course ==
    \E course_id \in Ids :
        \E r \in {get_course(courses, course_id)} :
            /\ resp' = Response("get_course", course_id, <<>>, r.status,
                                r.body)
            /\ UNCHANGED <<assignments, courses, now, issued, thr, log, held>>

PATCH_course ==
    \E course_id \in Ids, body \in CoursePatches :
        \E r \in {update_course(courses, course_id, body, <<now, now>>)} :
            /\ courses' = r.store
            /\ resp' = Response("update_course", course_id, body, r.status,
                                r.body)
            /\ UNCHANGED <<assignments, now, issued, thr, log, held>>

PUT_course ==
    \E course_id \in Ids, body \in CourseBodies :
    \E t \in TwoReads :
        \E r \in {replace_course(courses, course_id, body, t)} :
            /\ courses' = r.store
            /\ resp' = Response("replace_course", course_id, body, r.status,
                                r.body)
            /\ now' = ClockAfter(r.status, t)
            /\ UNCHANGED <<assignments, issued, thr, log, held>>

DELETE_course ==
    \E course_id \in Ids :
        \E r \in {delete_course(courses, course_id)} :
            /\ courses' = r.store
            /\ resp' = Response("delete_course", course_id, <<>>, r.status,
                                r.body)
            /\ UNCHANGED <<assignments, now, issued, thr, log, held>>

\* time passes between two requests
Tick ==
    /\ now < MaxClock
    /\ now' = now + 1
    /\ UNCHANGED <<assignments, courses, issued, resp, thr, log, held>>

Next ==
    \/ POST_assignments
    \/ GET_assignments
    \/ GET_assignment
    \/ PATCH_assignment
    \/ PUT_assignment
    \/ DELETE_assignment
    \/ POST_courses
    \/ GET_courses
    \/ GET_course
    \/ PATCH_course
    \/ PUT_course
    \/ DELETE_course
    \/ Tick

Spec == Init /\ [][Next]_vars

(* ------- main.py: handlers run by the thread pool, line by line ------- *)
\* FastAPI runs these `def` handlers in worker threads, so the lines of two
\* handlers interleave. A step is one access to the shared dict together with
\* the local computation around it; the name gives the handler and the line
\* of main.py. thr[w].loc is the handler's local variable `stored`.

\* the requests the pool is given: every assignment handler that writes or
\* reads one record
ConcRequests ==
    {[op |-> "create_assignment", id |-> NoId, payload |-> b] :
        b \in {AssignmentBody1, WithId(AssignmentBody1, 1)}}
    \cup {[op |-> "update_assignment", id |-> i, payload |-> b] :
            i \in Ids, b \in AssignmentPatches \ {<<>>}}
    \cup {[op |-> "replace_assignment", id |-> i, payload |-> AssignmentBody2] :
            i \in Ids}
    \cup {[op |-> o, id |-> i, payload |-> <<>>] :
            o \in {"get_assignment", "delete_assignment"}, i \in Ids}

\* the first line of each handler
Entry(op) ==
    CASE op = "create_assignment" -> "create_64"
      [] op = "get_assignment" -> "get_138"
      [] op = "update_assignment" -> "update_151"
      [] op = "replace_assignment" -> "replace_168"
      [] op = "delete_assignment" -> "delete_186"

Busy == {w \in Threads : thr[w].pc # "idle"}

\* a request arrives and an idle worker takes it; a creation body without id
\* gets its uuid4() when the body is parsed
Accept(w) ==
    /\ thr[w].pc = "idle"
    /\ \A v \in 1..(w - 1) : thr[v].pc # "idle"
    /\ Len(log) + Cardinality(Busy) < MaxRequests
    /\ \E rq \in ConcRequests :
       \E u \in (IF rq.op = "create_assignment" /\ "id" \notin DOMAIN rq.payload
                 THEN Uuid4 \ {thr[v].req.u : v \in Busy} ELSE {NoId}) :
           thr' = [thr EXCEPT ![w] =
                      [pc |-> Entry(rq.op),
                       req |-> [op |-> rq.op, id |-> rq.id,
                                payload |-> rq.payload, u |-> u],
                       loc |-> <<>>]]
    /\ UNCHANGED <<assignments, courses, now, issued, resp, log, held>>

\* the handler of worker w returns or raises: the answer goes to the log
Answer(w, status, body, t) ==
    /\ log' = Append(log, [req |-> thr[w].req, status |-> status,
                           body |-> body, t |-> t])
    /\ thr' = [thr EXCEPT ![w] = Idle]

Goto(w, pc) == thr' = [thr EXCEPT ![w].pc = pc]

\* lines 64-66
create_64(w) ==
    /\ thr[w].pc = "create_64"
    /\ \E t \in TwoReads :
       \E r \in {create_assignment(assignments, thr[w].req.payload,
                                   thr[w].req.u, t)} :
           /\ assignments' = r.store
           /\ issued' = IF r.status = 201
                        THEN [issued EXCEPT
                                 !.assignments = @ \cup {r.body[1].id}]
                        ELSE issued
           /\ now' = ClockAfter(r.status, t)
           /\ Answer(w, r.status, r.body, t)
    /\ UNCHANGED <<courses, resp, held>>

\* line 138: if assignment_id not in assignments
get_138(w) ==
    /\ thr[w].pc = "get_138"
    /\ IF NotIn(thr[w].req.id, assignments)
       THEN Answer(w, 404, <<>>, <<now, now>>)
       ELSE Goto(w, "get_140") /\ UNCHANGED log
    /\ UNCHANGED <<assignments, courses, now, issued, resp, held>>

\* line 140: return assignments[assignment_id]; KeyError if it is gone
get_140(w) ==
    /\ thr[w].pc = "get_140"
    /\ IF NotIn(thr[w].req.id, assignments)
       THEN Answer(w, 500, <<>>, <<now, now>>)
       ELSE Answer(w, 200, <<Lookup(assignments, thr[w].req.id)>>,
                   <<now, now>>)
    /\ UNCHANGED <<assignments, courses, now, issued, resp, held>>

\* line 151
update_151(w) ==
    /\ thr[w].pc = "update_151"
    /\ IF NotIn(thr[w].req.id, assignments)
       THEN Answer(w, 404, <<>>, <<now, now>>)
       ELSE Goto(w, "update_153") /\ UNCHANGED log
    /\ UNCHANGED <<assignments, courses, now, issued, resp, held>>

\* line 153: stored = assignments[assignment_id].model_dump()
update_153(w) ==
    /\ thr[w].pc = "update_153"
    /\ IF NotIn(thr[w].req.id, assignments)
       THEN Answer(w, 500, <<>>, <<now, now>>)
       ELSE /\ thr' = [thr EXCEPT
                          ![w].pc = "update_155",
                          ![w].loc = model_dump(
                                         Lookup(assignments, thr[w].req.id))]
            /\ UNCHANGED log
    /\ UNCHANGED <<assignments, courses, now, issued, resp, held>>

\* lines 154-155: assignments[assignment_id] = AssignmentRead(**stored)
update_155(w) ==
    /\ thr[w].pc = "update_155"
    /\ \E r \in {update_merge(thr[w].loc, thr[w].req.payload, <<now, now>>)} :
           IF r.exc # ""
           THEN Answer(w, 500, <<>>, <<now, now>>) /\ UNCHANGED assignments
           ELSE /\ assignments' = Put(assignments, thr[w].req.id, r.val[1])
                /\ Goto(w, "update_156")
                /\ UNCHANGED log
    /\ UNCHANGED <<courses, now, issued, resp, held>>

\* line 156: return assignments[assignment_id]
update_156(w) ==
    /\ thr[w].pc = "update_156"
    /\ IF NotIn(thr[w].req.id, assignments)
       THEN Answer(w, 500, <<>>, <<now, now>>)
       ELSE Answer(w, 200, <<Lookup(assignments, thr[w].req.id)>>,
                   <<now, now>>)
    /\ UNCHANGED <<assignments, courses, now, issued, resp, held>>

\* line 168
replace_168(w) ==
    /\ thr[w].pc = "replace_168"
    /\ IF NotIn(thr[w].req.id, assignments)
       THEN Answer(w, 404, <<>>, <<now, now>>)
       ELSE Goto(w, "replace_173") /\ UNCHANGED log
    /\ UNCHANGED <<assignments, courses, now, issued, resp, held>>

\* lines 170-174
replace_173(w) ==
    /\ thr[w].pc = "replace_173"
    /\ \E t \in TwoReads :
       \E r \in {replace_build(thr[w].req.id, thr[w].req.payload, t)} :
           IF r.exc # ""
           THEN Answer(w, 500, <<>>, t) /\ UNCHANGED <<assignments, now>>
           ELSE /\ assignments' = Put(assignments, thr[w].req.id, r.val[1])
                /\ now' = t[2]
                /\ Answer(w, 200, r.val, t)
    /\ UNCHANGED <<courses, issued, resp, held>>

\* line 186
delete_186(w) ==
    /\ thr[w].pc = "delete_186"
    /\ IF NotIn(thr[w].req.id, assignments)
       THEN Answer(w, 404, <<>>, <<now, now>>)
       ELSE Goto(w, "delete_188") /\ UNCHANGED log
    /\ UNCHANGED <<assignments, courses, now, issued, resp, held>>

\* line 188: del assignments[assignment_id]; KeyError if it is gone
delete_188(w) ==
    /\ thr[w].pc = "delete_188"
    /\ IF NotIn(thr[w].req.id, assignments)
       THEN Answer(w, 500, <<>>, <<now, now>>) /\ UNCHANGED assignments
       ELSE /\ assignments' = Del(assignments, thr[w].req.id)
            /\ Answer(w, 204, <<>>, <<now, now>>)
    /\ UNCHANGED <<courses, now, issued, resp, held>>

\* time passes
ConcTick ==
    /\ now < MaxClock
    /\ now' = now + 1
    /\ UNCHANGED <<assignments, courses, issued, resp, thr, log, held>>

ConcNext ==
    \/ \E w \in Threads : Accept(w)
    \/ \E w \in Threads : create_64(w)
    \/ \E w \in Threads : get_138(w)
    \/ \E w \in Threads : get_140(w)
    \/ \E w \in Threads : update_151(w)
    \/ \E w \in Threads : update_153(w)
    \/ \E w \in Threads : update_155(w)
    \/ \E w \in Threads : update_156(w)
    \/ \E w \in Threads : replace_168(w)
    \/ \E w \in Threads : replace_173(w)
    \/ \E w \in Threads : delete_186(w)
    \/ \E w \in Threads : delete_188(w)
    \/ ConcTick

ConcSpec == Init /\ [][ConcNext]_vars

(* ------------- main.py: the list filters as pure functions ------------- *)
\* list_assignments and list_courses are functions of the store content and
\* of the query alone. FilterSpec applies them to store contents and queries
\* drawn from the sets below, once per behaviour; the inputs of the run are
\* kept in resp.payload.

\* a third creation body: due on the same day as AssignmentBody1 at midnight,
\* one hundredth of a point less
AssignmentBody3 ==
    [course_id               |-> Some(1),
     title                   |-> Some(Hw),
     description             |-> Some(Quiz),
     points                  |-> Some([coef |-> 4999, scale |-> 2]),
     due_date                |-> Some([day |-> 20, tod |-> 0]),
     group_assignment        |-> Some(TRUE)]

\* the dict after POST /assignments of body b with the client's id i
Created(d, b, i) == create_assignment(d, WithId(b, i), NoId, <<0, 0>>).store

\* store contents: up to two records under distinct ids
AssignmentStores ==
    LET B == {AssignmentBody1, AssignmentBody2, AssignmentBody3}
    IN  {<<>>}
        \cup {Created(<<>>, b, i) : b \in B, i \in Ids}
        \cup {Created(Created(<<>>, b[1], i[1]), b[2], i[2]) :
                b \in B \X B, i \in {j \in Ids \X Ids : j[1] # j[2]}}

Restrict(q, S) == [c \in S |-> q[c]]

\* every way to supply some criteria of the full query fq and leave the rest
Combinations(fq) == {Restrict(fq, S) : S \in SUBSET DOMAIN fq}

\* query strings of GET /assignments: the bounds sit on the values stored
AssignmentCriteria ==
    Combinations(
        [id |-> 1, course_id |-> 1, title |-> <<"q", "U">>,
         due_date_from |-> [day |-> 20], due_date_to |-> [day |-> 20],
         min_points |-> 5000, max_points |-> 5000,
         group_assignment |-> FALSE, late_submission_allowed |-> TRUE])
    \cup Combinations(
        [id |-> 2, course_id |-> 2, title |-> Empty,
         due_date_from |-> [day |-> 21, tod |-> 5],
         due_date_to |-> [day |-> 21],
         min_points |-> 0, max_points |-> 4999,
         group_assignment |-> TRUE, late_submission_allowed |-> FALSE])

CS == <<"C", "S">>
Fall == <<"f", "a", "l", "l">>

CourseBody2 ==
    [title       |-> Some(Hw),
     description |-> Some(Empty),
     credits     |-> Some(3),
     department  |-> Some(CS),
     level       |-> Some(1000),
     semester    |-> Some(Fall),
     year        |-> Some(2025)]

\* a CourseRead built with both timestamps given, as in the schema's example
CourseRecord(body, i) ==
    CourseRead([created_at |-> Some(0), updated_at |-> Some(0)]
                   @@ course_model_dump(CourseCreate(WithId(body, i), NoId)),
               Defaults(NoId, <<0, 0>>)).val[1]

\* list(courses.values()) of up to two courses
CourseLists ==
    LET B == {CourseBody1, CourseBody2}
    IN  {<<>>}
        \cup {<<CourseRecord(b, i)>> : b \in B, i \in Ids}
        \cup {<<CourseRecord(b[1], i[1]), CourseRecord(b[2], i[2])>> :
                b \in B \X B, i \in {j \in Ids \X Ids : j[1] # j[2]}}

\* query strings of GET /courses
CourseCriteria ==
    Combinations(
        [title |-> <<"c", "A">>, department |-> <<"m", "a", "t", "h">>,
         level |-> 2000, semester |-> Spring, year |-> 2024,
         min_credits |-> 4, max_credits |-> 4])
    \cup Combinations(
        [title |-> Empty, department |-> <<"c", "s">>,
         level |-> 1000, semester |-> <<"F", "a", "l", "l">>, year |-> 2024,
         min_credits |-> 3, max_credits |-> 3])

\* list_assignments run on the store content d with the query q
ListAssignments ==
    /\ resp.op = ""
    /\ \E d \in AssignmentStores, q \in AssignmentCriteria :
           \E r \in {list_assignments(d, q)} :
               resp' = Response("list_assignments", NoId,
                                [store |-> d, q |-> q], r.status, r.body)
    /\ UNCHANGED <<assignments, courses, now, issued, thr, log, held>>

\* the filter chain of list_courses run on the list `all` with the query q
ListCourses ==
    /\ resp.op = ""
    /\ \E all \in CourseLists, q \in CourseCriteria :
           resp' = Response("list_courses", NoId, [all |-> all, q |-> q],
                            200, FilterCourses(all, q))
    /\ UNCHANGED <<assignments, courses, now, issued, thr, log, held>>

FilterNext == ListAssignments \/ ListCourses

FilterSpec == Init /\ [][FilterNext]_vars

(* -------- main.py: the handlers called from Python, object by object --- *)
\* The handlers are plain functions of module main: a caller that imports
\* the module (a test, another module) gets what they return, which is a
\* reference to an AssignmentRead object. `held` lists the objects such a
\* caller holds: val is the object's value, k the key it was returned for and
\* live says whether the dict still holds this very object under k. Pydantic
\* models are mutable, so the caller can assign to a field of an object.

\* objects a caller holds at one time
MaxHeld == 2

\* assignments[k] is bound to a new object, or deleted: the objects returned
\* before for k live on outside the dict
Unlink(h, k) ==
    [i \in 1..Len(h) |->
        IF h[i].k = k THEN [h[i] EXCEPT !.live = FALSE] ELSE h[i]]

\* the caller keeps the reference returned, which is to the object the dict
\* holds under k
Keep(h, k, obj) ==
    IF (\E i \in 1..Len(h) : h[i].k = k /\ h[i].live) \/ Len(h) >= MaxHeld
    THEN h
    ELSE Append(h, [k |-> k, val |-> obj, live |-> TRUE])

\* the caller keeps every element of the list returned
KeepAll(h, list) ==
    LET acc[n \in 0..Len(list)] ==
            IF n = 0 THEN h ELSE Keep(acc[n - 1], list[n].id, list[n])
    IN  acc[Len(list)]

\* lines 64-66: the object made is stored and returned
Call_create_assignment ==
    \E body \in {AssignmentBody1, WithId(AssignmentBody1, 1)} :
    \E u \in (IF "id" \in DOMAIN body THEN {NoId} ELSE Uuid4) :
    \E t \in TwoReads :
        \E r \in {create_assignment(assignments, body, u, t)} :
            /\ assignments' = r.store
            /\ held' = IF r.status = 201
                       THEN Keep(Unlink(held, r.body[1].id), r.body[1].id,
                                 r.body[1])
                       ELSE held
            /\ resp' = Response("create_assignment", NoId, body, r.status,
                                r.body)
            /\ issued' = IF r.status = 201
                         THEN [issued EXCEPT
                                  !.assignments = @ \cup {r.body[1].id}]
                         ELSE issued
            /\ now' = ClockAfter(r.status, t)
            /\ UNCHANGED <<courses, thr, log>>

\* lines 97-127: a new list of the objects stored
Call_list_assignments ==
    \E r \in {list_assignments(assignments, <<>>)} :
        /\ held' = KeepAll(held, r.body)
        /\ resp' = Response("list_assignments", NoId, <<>>, r.status, r.body)
        /\ UNCHANGED <<assignments, courses, now, issued, thr, log>>

\* line 140: return assignments[assignment_id], the object stored
Call_get_assignment ==
    \E assignment_id \in Ids :
        \E r \in {get_assignment(assignments, assignment_id)} :
            /\ held' = IF r.status = 200
                       THEN Keep(held, assignment_id, r.body[1]) ELSE held
            /\ resp' = Response("get_assignment", assignment_id, <<>>,
                                r.status, r.body)
            /\ UNCHANGED <<assignments, courses, now, issued, thr, log>>

\* lines 155-156: a new AssignmentRead is stored, and returned from the dict
Call_update_assignment ==
    \E assignment_id \in Ids :
    \E body \in {[group_assignment |-> Some(TRUE)]} :
        \E r \in {update_assignment(assignments, assignment_id, body,
                                   <<now, now>>)} :
            /\ assignments' = r.store
            /\ held' = IF r.status = 200
                       THEN Keep(Unlink(held, assignment_id), assignment_id,
                                 r.body[1])
                       ELSE held
            /\ resp' = Response("update_assignment", assignment_id, body,
                                r.status, r.body)
            /\ UNCHANGED <<courses, now, issued, thr, log>>

\* lines 172-174: a new AssignmentRead is stored and returned
Call_replace_assignment ==
    \E assignment_id \in Ids, body \in {AssignmentBody2} :
    \E t \in TwoReads :
        \E r \in {replace_assignment(assignments, assignment_id, body, t)} :
            /\ assignments' = r.store
            /\ held' = IF r.status = 200
                       THEN Keep(Unlink(held, assignment_id), assignment_id,
                                 r.body[1])
                       ELSE held
            /\ resp' = Response("replace_assignment", assignment_id, body,
                                r.status, r.body)
            /\ now' = ClockAfter(r.status, t)
            /\ UNCHANGED <<courses, issued, thr, log>>

\* line 188
Call_delete_assignment ==
    \E assignment_id \in Ids :
        \E r \in {delete_assignment(assignments, assignment_id)} :
            /\ assignments' = r.store
            /\ held' = IF r.status = 204
                       THEN Unlink(held, assignment_id) ELSE held
            /\ resp' = Response("delete_assignment", assignment_id, <<>>,
                                r.status, r.body)
            /\ UNCHANGED <<courses, now, issued, thr, log>>

\* the caller assigns to the title of an object it holds (obj.title = "hw");
\* the dict is not written, but what it holds under k is this object if live
CallerSets ==
    \E i \in 1..Len(held) :
        /\ held[i].val.title # Hw
        /\ held' = [held EXCEPT ![i].val.title = Hw]
        /\ assignments' =
               IF held[i].live
               THEN Put(assignments, held[i].k,
                        [Lookup(assignments, held[i].k) EXCEPT !.title = Hw])
               ELSE assignments
        /\ UNCHANGED <<courses, now, issued, resp, thr, log>>

CallerNext ==
    \/ Call_create_assignment
    \/ Call_list_assignments
    \/ Call_get_assignment
    \/ Call_update_assignment
    \/ Call_replace_assignment
    \/ Call_delete_assignment
    \/ CallerSets

CallerSpec == Init /\ [][CallerNext]_vars

(* ====================================================================== *)
(*                             Properties                                 *)
(* ====================================================================== *)
\* the record a dict holds under key k, read off the entries
At(d, k) == (CHOOSE i \in 1..Len(d) : d[i].k = k)
Rec(d, k) == d[At(d, k)].v

\* handler `op` answered in this step (a request repeated with the same
\* answer and no effect is a stuttering step)
Served(op) == resp' # resp /\ resp'.op = op

\* the response always changes when a handler changes anything else
ResponseTracksSteps ==
    [][resp' = resp => UNCHANGED <<assignments, courses, issued>>]_vars

\* C1: a successful PartialUpdate of a stored assignment gives every field
\* present in the payload (falsy values included) the payload's value and
\* leaves every other field, id and created_at among them, as it was.
\* (updated_at is the subject of C2 and is left out here.)
C1_PartialUpdateFrame ==
    [][ (Served("update_assignment") /\ resp'.status = 200) =>
            LET id == resp'.id
                P == model_dump_exclude_unset(AssignmentUpdate(resp'.payload))
                before == Rec(assignments, id)
                after == Rec(assignments', id)
            IN  /\ id \in Keys(assignments) /\ id \in Keys(assignments')
                /\ \A f \in DOMAIN P : Some(after[f]) = P[f]
                /\ \A f \in AssignmentReadFields
                              \ ((DOMAIN P) \cup {"updated_at"}) :
                       after[f] = before[f]
                /\ resp'.body = <<after>> ]_vars

\* a PartialUpdate with falsy values has been applied to a record made from
\* AssignmentBody1: title, points and late_submission_allowed are the
\* payload's, description and course_id are the old ones
C1_Witness ==
    /\ resp.op = "update_assignment"
    /\ resp.status = 200
    /\ "title" \in DOMAIN resp.payload
    /\ resp.payload["title"] = Some(Empty)
    /\ resp.id \in Keys(assignments)
    /\ Rec(assignments, resp.id).title = Empty
    /\ Rec(assignments, resp.id).points.coef = 0
    /\ ~Rec(assignments, resp.id).late_submission_allowed
    /\ Rec(assignments, resp.id).description = Hw
    /\ Rec(assignments, resp.id).course_id = 1

\* C2: every successful PartialUpdate refreshes updated_at: it is strictly
\* greater than before. Stated for the updates served after the clock has
\* moved past the old stamp, where nothing keeps the new stamp from being
\* greater.
C2_UpdateRefreshesUpdatedAt ==
    [][ /\ (Served("update_assignment") /\ resp'.status = 200
              /\ now > Rec(assignments, resp'.id).updated_at)
            => Rec(assignments', resp'.id).updated_at
                 > Rec(assignments, resp'.id).updated_at
        /\ (Served("update_course") /\ resp'.status = 200
              /\ now > Rec(courses, resp'.id).updated_at)
            => Rec(courses', resp'.id).updated_at
                 > Rec(courses, resp'.id).updated_at ]_vars

\* C3: created_at is immutable: a successful PartialUpdate or FullReplace
\* leaves the created_at of the record it names as it was.
C3_CreatedAtImmutable ==
    [][ /\ ((Served("update_assignment") \/ Served("replace_assignment"))
              /\ resp'.status = 200)
            => Rec(assignments', resp'.id).created_at
                 = Rec(assignments, resp'.id).created_at
        /\ ((Served("update_course") \/ Served("replace_course"))
              /\ resp'.status = 200)
            => Rec(courses', resp'.id).created_at
                 = Rec(courses, resp'.id).created_at ]_vars

\* C4: after a successful FullReplace(E.id, P) the record under E.id has
\* id = E.id and every other payload field equal to P's (the schema's default
\* where the body gives none); the keys of the store are the same, so nothing
\* is stored under P's own id, and a record that was under P's id is untouched.
C4_ReplaceKeepsId ==
    [][ /\ (Served("replace_assignment") /\ resp'.status = 200) =>
            LET id == resp'.id
                P == AssignmentCreate(resp'.payload, NoId)
                after == Rec(assignments', id)
            IN  /\ id \in Keys(assignments) /\ id \in Keys(assignments')
                /\ after.id = id
                /\ \A f \in AssignmentBaseFields \ {"id"} : after[f] = P[f]
                /\ Keys(assignments') = Keys(assignments)
                /\ \A k \in Keys(assignments) \ {id} :
                       Rec(assignments', k) = Rec(assignments, k)
                /\ resp'.body = <<after>>
        /\ (Served("replace_course") /\ resp'.status = 200) =>
            LET id == resp'.id
                P == CourseCreate(resp'.payload, NoId)
                after == Rec(courses', id)
            IN  /\ id \in Keys(courses) /\ id \in Keys(courses')
                /\ after.id = id
                /\ \A f \in CourseBaseFields \ {"id"} : after[f] = P[f]
                /\ Keys(courses') = Keys(courses)
                /\ \A k \in Keys(courses) \ {id} :
                       Rec(courses', k) = Rec(courses, k)
                /\ resp'.body = <<after>> ]_vars

\* a FullReplace whose body carries another id than the path's has been
\* served, with two records stored: the record under the path id has the path
\* id and the body's title
C4_Witness ==
    /\ resp.op = "replace_assignment"
    /\ resp.status = 200
    /\ "id" \in DOMAIN resp.payload
    /\ resp.payload["id"] # Some(resp.id)
    /\ Len(assignments) = 2
    /\ Rec(assignments, resp.id).id = resp.id
    /\ Some(Rec(assignments, resp.id).title) = resp.payload["title"]

\* C5: the id of the entity Create returns is distinct from every id created
\* before in the same store, deleted ones included, whether or not the body
\* carries an id.
C5_CreateIdFresh ==
    [][ /\ (Served("create_assignment") /\ resp'.status = 201)
            => resp'.body[1].id \notin issued.assignments
        /\ (Served("create_course") /\ resp'.status = 201)
            => resp'.body[1].id \notin issued.courses ]_vars

\* C6: a Create leaves every stored record as it was and the store has one
\* record more.
C6_CreateAddsOne ==
    [][ /\ (Served("create_assignment") /\ resp'.status = 201) =>
            /\ \A k \in Keys(assignments) :
                   /\ k \in Keys(assignments')
                   /\ Rec(assignments', k) = Rec(assignments, k)
            /\ Len(assignments') = Len(assignments) + 1
        /\ (Served("create_course") /\ resp'.status = 201) =>
            /\ \A k \in Keys(courses) :
                   /\ k \in Keys(courses')
                   /\ Rec(courses', k) = Rec(courses, k)
            /\ Len(courses') = Len(courses) + 1 ]_vars

\* C7: Get, PartialUpdate, FullReplace and Delete on an id that is not stored
\* answer NotFound (404) and leave both stores as they were; on an id that is
\* stored none of them answers NotFound.
C7_NotFound ==
    [][ /\ \A op \in {"get_assignment", "update_assignment",
                      "replace_assignment", "delete_assignment"} :
               Served(op) =>
                   IF resp'.id \notin Keys(assignments)
                   THEN resp'.status = 404
                        /\ UNCHANGED <<assignments, courses>>
                   ELSE resp'.status # 404
        /\ \A op \in {"get_course", "update_course", "replace_course",
                      "delete_course"} :
               Served(op) =>
                   IF resp'.id \notin Keys(courses)
                   THEN resp'.status = 404
                        /\ UNCHANGED <<assignments, courses>>
                   ELSE resp'.status # 404 ]_vars

\* a PartialUpdate of an id that is not stored was answered NotFound while
\* another record is stored
C7_Witness ==
    /\ resp.op = "update_assignment"
    /\ resp.status = 404
    /\ resp.id \notin Keys(assignments)
    /\ assignments # <<>>

\* C8: a successful Delete(id) removes the record and keeps every other one;
\* an id that is not stored stays so until a Create returns it, and while it
\* is not stored Get answers NotFound and no List, whatever the criteria,
\* returns a record with that id.
C8_DeletedStaysGone ==
    [][ /\ (Served("delete_assignment") /\ resp'.status = 204) =>
            /\ resp'.id \notin Keys(assignments')
            /\ \A k \in Keys(assignments) \ {resp'.id} :
                   /\ k \in Keys(assignments')
                   /\ Rec(assignments', k) = Rec(assignments, k)
        /\ \A id \in Ids \ Keys(assignments) :
            /\ id \in Keys(assignments') =>
                   /\ Served("create_assignment")
                   /\ resp'.status = 201
                   /\ resp'.body[1].id = id
            /\ Served("get_assignment") /\ resp'.id = id
                   => resp'.status = 404
            /\ Served("list_assignments") =>
                   \A i \in 1..Len(resp'.body) : resp'.body[i].id # id
            /\ \A q \in AssignmentQueries :
                   LET found == FilterAssignments(Values(assignments), q)
                   IN  \A i \in 1..Len(found) : found[i].id # id ]_vars

\* a Delete has been served, its id is not stored and another record is
C8_Witness ==
    /\ resp.op = "delete_assignment"
    /\ resp.status = 204
    /\ resp.id \notin Keys(assignments)
    /\ assignments # <<>>

\* C10: Create Course with a valid body succeeds (201), the course is stored
\* under the id returned with both timestamps stamped, and List with
\* department="math" includes it.
C10_CreateCourseSucceeds ==
    resp.op = "create_course" =>
        /\ resp.status = 201
        /\ Len(resp.body) = 1
        /\ resp.body[1].id \in Keys(courses)
        /\ Rec(courses, resp.body[1].id) = resp.body[1]
        /\ \E i \in 1..Len(courses) :
               FilterCourses(Values(courses),
                   [department |-> <<"m", "a", "t", "h">>])[i] = resp.body[1]

\* what the handler of log entry e makes of dict d when it runs alone, with
\* the uuid and the clock values e's run drew
SerialStep(d, e) ==
    CASE e.req.op = "create_assignment" ->
             create_assignment(d, e.req.payload, e.req.u, e.t)
      [] e.req.op = "get_assignment" -> get_assignment(d, e.req.id)
      [] e.req.op = "update_assignment" ->
             update_assignment(d, e.req.id, e.req.payload, e.t)
      [] e.req.op = "replace_assignment" ->
             replace_assignment(d, e.req.id, e.req.payload, e.t)
      [] e.req.op = "delete_assignment" -> delete_assignment(d, e.req.id)

\* the answered requests, run one after the other in the order `o` from the
\* empty store, give the answers logged and the store as it is now
SerialMatches(o) ==
    LET n == Len(log)
        after[i \in 0..n] ==
            IF i = 0 THEN <<>>
            ELSE SerialStep(after[i - 1], log[o[i]]).store
    IN  /\ \A i \in 1..n :
               \E r \in {SerialStep(after[i - 1], log[o[i]])} :
                   r.status = log[o[i]].status /\ r.body = log[o[i]].body
        /\ after[n] = assignments

Orders(n) == {o \in [1..n -> 1..n] : \A i, j \in 1..n : o[i] = o[j] => i = j}

Mutations ==
    {"create_assignment", "update_assignment", "replace_assignment",
     "delete_assignment"}

\* C9: insert, merge_update, replace and delete are atomic with respect to
\* each other: whenever no handler is in flight and only such requests were
\* answered, the store and the answers are those of some serial execution of
\* the same requests.
C9_Serializable ==
    (Busy = {} /\ \A i \in 1..Len(log) : log[i].req.op \in Mutations)
        => \E o \in Orders(Len(log)) : SerialMatches(o)

\* the instance C9 names: after a Create, two PartialUpdates of the same id
\* that set different fields and both answer 200 both show in the record
NoLostUpdate ==
    (/\ Busy = {}
     /\ Len(log) = 3
     /\ log[1].req.op = "create_assignment"
     /\ \A i \in {2, 3} :
            /\ log[i].req.op = "update_assignment"
            /\ log[i].status = 200
            /\ log[i].req.id = log[1].body[1].id
     /\ (DOMAIN log[2].req.payload) \cap (DOMAIN log[3].req.payload) = {})
        => \A i \in {2, 3} :
               \E P \in {model_dump_exclude_unset(
                             AssignmentUpdate(log[i].req.payload))} :
                   \A f \in DOMAIN P :
                       Some(Rec(assignments, log[1].body[1].id)[f]) = P[f]

(* ------------------------- the list filters --------------------------- *)
\* sub occurs in s, letter case apart
ContainsCI(sub, s) ==
    \E i \in 1..(Len(s) + 1), j \in 0..Len(s) :
        SubSeq(lower(s), i, j) = lower(sub)

\* assignment a satisfies every criterion the query q supplies
SatAssignment(a, q) ==
    LET has(c) == c \in DOMAIN q
    IN  /\ has("id") => a.id = q["id"]
        /\ has("course_id") => a.course_id = q["course_id"]
        /\ has("title") => ContainsCI(q["title"], a.title)
        /\ has("due_date_from") => a.due_date.day >= q["due_date_from"].day
        /\ has("due_date_to") => a.due_date.day <= q["due_date_to"].day
        /\ has("min_points") => float(a.points) >= q["min_points"]
        /\ has("max_points") => float(a.points) <= q["max_points"]
        /\ has("group_assignment")
               => a.group_assignment = q["group_assignment"]
        /\ has("late_submission_allowed")
               => a.late_submission_allowed = q["late_submission_allowed"]

\* course c satisfies every criterion the query q supplies
SatCourse(c, q) ==
    LET has(x) == x \in DOMAIN q
    IN  /\ has("title") => ContainsCI(q["title"], c.title)
        /\ has("department") => ContainsCI(q["department"], c.department)
        /\ has("level") => c.level = q["level"]
        /\ has("semester") => c.semester = q["semester"]
        /\ has("year") => c.year = q["year"]
        /\ has("min_credits") => c.credits >= q["min_credits"]
        /\ has("max_credits") => c.credits <= q["max_credits"]

Elems(s) == {s[i] : i \in 1..Len(s)}
NoRepeat(s) == \A i, j \in 1..Len(s) : s[i] = s[j] => i = j

\* C11: List returns exactly the stored entities that satisfy every supplied
\* criterion, each at most once, and every stored entity when no criterion
\* is supplied.
C11_ListExact ==
    /\ resp.op = "list_assignments" =>
           LET all == Values(resp.payload.store)
               q == resp.payload.q
           IN  /\ resp.status = 200
               /\ Elems(resp.body) = {a \in Elems(all) : SatAssignment(a, q)}
               /\ NoRepeat(resp.body)
               /\ DOMAIN q = {} => resp.body = all
    /\ resp.op = "list_courses" =>
           LET all == resp.payload.all
               q == resp.payload.q
           IN  /\ Elems(resp.body) = {c \in Elems(all) : SatCourse(c, q)}
               /\ NoRepeat(resp.body)
               /\ DOMAIN q = {} => resp.body = all

\* a List with three criteria, the title in another letter case and both
\* point bounds on the stored value, kept one of two stored assignments
C11_Witness ==
    /\ resp.op = "list_assignments"
    /\ DOMAIN resp.payload.q = {"title", "min_points", "max_points"}
    /\ Len(resp.payload.store) = 2
    /\ Len(resp.body) = 1
    /\ resp.body[1].title = Quiz
    /\ float(resp.body[1].points) = resp.payload.q["min_points"]

\* C12: with two criteria A and B supplied, List gives what filtering by A
\* and then filtering the result by B gives, and the same with B first.
C12_FilterComposes ==
    /\ (resp.op = "list_assignments"
          /\ Cardinality(DOMAIN resp.payload.q) = 2) =>
           LET all == Values(resp.payload.store)
               q == resp.payload.q
           IN  \A A \in DOMAIN q : \A B \in (DOMAIN q) \ {A} :
                   resp.body =
                       FilterAssignments(
                           FilterAssignments(all, Restrict(q, {A})),
                           Restrict(q, {B}))
    /\ (resp.op = "list_courses"
          /\ Cardinality(DOMAIN resp.payload.q) = 2) =>
           LET all == resp.payload.all
               q == resp.payload.q
           IN  \A A \in DOMAIN q : \A B \in (DOMAIN q) \ {A} :
                   resp.body =
                       FilterCourses(FilterCourses(all, Restrict(q, {A})),
                                     Restrict(q, {B}))

\* a List by course_id and group_assignment over two assignments of the same
\* course kept one: each criterion alone keeps more than both together
C12_Witness ==
    /\ resp.op = "list_assignments"
    /\ DOMAIN resp.payload.q = {"course_id", "group_assignment"}
    /\ Len(resp.payload.store) = 2
    /\ Len(resp.body) = 1
    /\ Len(FilterAssignments(Values(resp.payload.store),
                             Restrict(resp.payload.q, {"course_id"}))) = 2

\* C13: due_date_from and due_date_to are inclusive bounds on the calendar
\* day of due_date, whatever its time of day: with only these criteria
\* supplied, List keeps exactly the assignments due on or after the day of
\* due_date_from and on or before the day of due_date_to.
C13_DateBoundsInclusive ==
    (resp.op = "list_assignments"
       /\ DOMAIN resp.payload.q \subseteq {"due_date_from", "due_date_to"}) =>
        LET all == Values(resp.payload.store)
            q == resp.payload.q
            kept(a) ==
                /\ "due_date_from" \in DOMAIN q
                       => a.due_date.day >= q["due_date_from"].day
                /\ "due_date_to" \in DOMAIN q
                       => a.due_date.day <= q["due_date_to"].day
        IN  \A i \in 1..Len(all) :
                kept(all[i]) <=> (\E j \in 1..Len(resp.body) :
                                      resp.body[j] = all[i])

\* due_date_to = day 20 kept an assignment due on day 20 in the afternoon
\* and dropped one due on day 21
C13_Witness ==
    /\ resp.op = "list_assignments"
    /\ DOMAIN resp.payload.q = {"due_date_to"}
    /\ resp.payload.q["due_date_to"].day = 20
    /\ Len(resp.payload.store) = 2
    /\ \E i \in 1..2 : resp.payload.store[i].v.due_date.day = 21
    /\ Len(resp.body) = 1
    /\ resp.body[1].due_date.day = 20
    /\ resp.body[1].due_date.tod > 0

\* C14: at creation the two timestamps are equal: the entity a Create returns
\* and stores has created_at = updated_at.
C14_CreateStampsEqual ==
    (resp.op = "create_assignment" /\ resp.status = 201) =>
        resp.body[1].created_at = resp.body[1].updated_at

\* served one at a time, the successful PartialUpdates and FullReplaces of an
\* id never decrease its updated_at nor leave it earlier than created_at
UpdatedAtMonotoneSerial ==
    [][ ((Served("update_assignment") \/ Served("replace_assignment"))
           /\ resp'.status = 200) =>
            LET before == Rec(assignments, resp'.id)
                after == Rec(assignments', resp'.id)
            IN  /\ after.updated_at >= before.updated_at
                /\ after.updated_at >= after.created_at ]_vars

\* C15: over the successful PartialUpdates and FullReplaces of an id its
\* updated_at never decreases, and it is never earlier than the record's
\* created_at (the clock does not go backwards): no store of a record by
\* update_assignment (line 155) or replace_assignment (line 173) lowers the
\* updated_at held under that id. Stated for the runs in which every Create
\* got its id from uuid4(), so that no Create writes over a record.
C15_UpdatedAtMonotone ==
    [][ \A w \in Threads :
            (thr[w].pc \in {"update_155", "replace_173"}
               /\ \A i \in 1..Len(log) :
                      log[i].req.op = "create_assignment"
                          => "id" \notin DOMAIN log[i].req.payload
               /\ thr'[w] # thr[w]
               /\ thr[w].req.id \in Keys(assignments)
               /\ thr[w].req.id \in Keys(assignments')) =>
                LET before == Rec(assignments, thr[w].req.id)
                    after == Rec(assignments', thr[w].req.id)
                IN  /\ after.updated_at >= before.updated_at
                    /\ after.updated_at >= after.created_at ]_vars

\* an object that is live is the value the dict holds under its key
LiveIsStored ==
    \A i \in 1..Len(held) :
        held[i].live =>
            /\ held[i].k \in Keys(assignments)
            /\ Rec(assignments, held[i].k) = held[i].val

\* C16: callers receive snapshots: a change the caller makes to a record it
\* was returned changes no record of the store, and a handler's change of the
\* store changes no record returned earlier.
C16_Snapshots ==
    [][ /\ (resp' = resp
              /\ \E i \in 1..Len(held) : held'[i].val # held[i].val)
            => assignments' = assignments
        /\ resp' # resp
            => \A i \in 1..Len(held) : held'[i].val = held[i].val ]_vars

\* C17: under every interleaving, each Get, PartialUpdate, FullReplace and
\* Delete ends with its success result or with NotFound and with no other
\* error. (Stated for the payloads without an explicit null, which are the
\* subject of C19.)
C17_OnlyNotFound ==
    \A i \in 1..Len(log) :
        (/\ log[i].req.op \in {"get_assignment", "update_assignment",
                               "replace_assignment", "delete_assignment"}
         /\ \A f \in DOMAIN log[i].req.payload :
                log[i].req.payload[f] # None)
            => log[i].status \in {200, 204, 404}

\* C18: a deleted entity is not brought back by a concurrent writer: when a
\* Delete of id has succeeded, a PartialUpdate or FullReplace of id has ended
\* after it, no Create has returned id since and no handler is in flight, the
\* store holds no record under id.
C18_NoResurrection ==
    \A i \in 1..Len(log) :
        (/\ Busy = {}
         /\ log[i].req.op = "delete_assignment"
         /\ log[i].status = 204
         /\ \E j \in (i + 1)..Len(log) :
                /\ log[j].req.op \in {"update_assignment",
                                      "replace_assignment"}
                /\ log[j].req.id = log[i].req.id
         /\ \A j \in (i + 1)..Len(log) :
                ~(log[j].req.op = "create_assignment"
                    /\ log[j].status = 201
                    /\ log[j].body[1].id = log[i].req.id))
            => log[i].req.id \notin Keys(assignments)

\* C19: a PartialUpdate of a stored id with any payload the update schema
\* accepts, an explicit null included, answers with the updated entity and
\* no error; one of an id that is not stored answers NotFound; and a
\* PartialUpdate that does not succeed leaves the store as it was.
C19_UpdateNeverFails ==
    [][ Served("update_assignment") =>
            /\ resp'.id \in Keys(assignments) =>
                   /\ resp'.status = 200
                   /\ resp'.body = <<Rec(assignments', resp'.id)>>
            /\ resp'.id \notin Keys(assignments) => resp'.status = 404
            /\ resp'.status # 200 => assignments' = assignments ]_vars

\* C20: in every reachable state each record is stored under its own id.
C20_KeyIsId ==
    /\ \A i \in 1..Len(assignments) : assignments[i].v.id = assignments[i].k
    /\ \A i \in 1..Len(courses) : courses[i].v.id = courses[i].k

\* a FullReplace whose body carries the id of the other stored record has
\* been served: two records are stored, each under its own id
C20_Witness ==
    /\ resp.op = "replace_assignment"
    /\ resp.status = 200
    /\ "id" \in DOMAIN resp.payload
    /\ resp.payload["id"] # Some(resp.id)
    /\ resp.payload["id"][1] \in Keys(assignments)
    /\ resp.id \in Keys(assignments)
    /\ assignments[At(assignments, resp.id)].v.id = resp.id

\* C21: every operation touches at most the record it names. A successful
\* PartialUpdate, FullReplace or Delete of id X leaves the records under
\* every other id as they were and stores nothing under another id; Get and
\* List change nothing; an operation on one store leaves the other store as
\* it was; and a Create of an assignment succeeds whether or not a course is
\* stored under its course_id.
C21_Frame ==
    [][ /\ \A op \in {"update_assignment", "replace_assignment",
                      "delete_assignment"} :
               (Served(op) /\ resp'.status \in {200, 204}) =>
                   /\ Keys(assignments') \subseteq Keys(assignments)
                   /\ \A k \in Keys(assignments) \ {resp'.id} :
                          /\ k \in Keys(assignments')
                          /\ Rec(assignments', k) = Rec(assignments, k)
        /\ \A op \in {"update_course", "replace_course", "delete_course"} :
               (Served(op) /\ resp'.status \in {200, 204}) =>
                   /\ Keys(courses') \subseteq Keys(courses)
                   /\ \A k \in Keys(courses) \ {resp'.id} :
                          /\ k \in Keys(courses')
                          /\ Rec(courses', k) = Rec(courses, k)
        /\ \A op \in {"get_assignment", "list_assignments", "get_course",
                      "list_courses"} :
               Served(op) => assignments' = assignments /\ courses' = courses
        /\ \A op \in {"create_assignment", "list_assignments",
                      "get_assignment", "update_assignment",
                      "replace_assignment", "delete_assignment"} :
               Served(op) => courses' = courses
        /\ \A op \in {"create_course", "list_courses", "get_course",
                      "update_course", "replace_course", "delete_course"} :
               Served(op) => assignments' = assignments
        /\ Served("create_assignment") =>
               /\ resp'.status = 201
               /\ resp'.body[1].course_id = resp'.payload["course_id"][1] ]_vars

\* a PartialUpdate that sets group_assignment has been served while two
\* records are stored: the record under the other id still has the default
C21_Witness ==
    /\ resp.op = "update_assignment"
    /\ resp.status = 200
    /\ "group_assignment" \in DOMAIN resp.payload
    /\ Len(assignments) = 2
    /\ Rec(assignments, resp.id).group_assignment
    /\ \E k \in Keys(assignments) \ {resp.id} :
           ~Rec(assignments, k).group_assignment

====
